---- MODULE Spec2Model ----
(***************************************************************************)
(* Model of src/deck/_utils/texture-data.ts: the memoizing loader          *)
(* (loadCached), the format dispatcher (loadTextureData), the JSON loader  *)
(* (loadJson), the image decoder (loadImage) and the nodata masker         *)
(* (maskData).                                                             *)
(***************************************************************************)
EXTENDS Integers, Sequences, FiniteSets, TLC

\* ------------------------------------------------------------------ bounds
MaxLoads == 2
MaxUrlLen == 4
MaxAttempts == 2
MaxLen == 2

\* ------------------------------------------------------------- variables
VARIABLES
    cache,      \* cache[c][u]: the entry of Map c under key u
    promises,   \* every promise returned by an underlying loader, by id
    last,       \* the most recent call of a memoized loader and what it returned
    durl,       \* the dispatcher alone: the URL it is given
    droute,     \* the dispatcher alone: "none", then the branch it took
    attempts,   \* the calls of loadImage: locals, position and result of each
    objectUrls, \* objectUrls[b]: the attempt whose createObjectURL made blob URL b
    buffers,    \* the typed arrays allocated so far; buffers[1] is maskData's argument
    nodata,     \* maskData's second argument
    maskRet,    \* 0 before maskData returns, then the buffer it returned
    rasters     \* the calls of loadGeotiff: position, options and result of each

cacheVars == <<cache, promises, last>>
dispatchVars == <<durl, droute>>
imageVars == <<attempts, objectUrls>>
maskVars == <<buffers, nodata, maskRet>>
rasterVars == <<rasters>>

\* ------------------------------------------------------------------ URLs
\* A URL is a sequence of tokens; a marker is a sequence of tokens, and
\* String.prototype.includes is a substring search.
UrlTokens == {"h", ".", "png", "webp", "tif", "image/", "xyz"}

Includes(url, marker) ==
    \E i \in 1..(Len(url) - Len(marker) + 1) :
        SubSeq(url, i, i + Len(marker) - 1) = marker

IsImageUrl(url) ==
    \/ Includes(url, <<".", "png">>)
    \/ Includes(url, <<".", "webp">>)
    \/ Includes(url, <<"image/", "png">>)
    \/ Includes(url, <<"image/", "webp">>)

IsTiffUrl(url) ==
    \/ Includes(url, <<".", "tif">>)
    \/ Includes(url, <<"image/", "tif">>)

\* a dispatcher that tests the TIFF markers first
Dispatch_tiffFirst(url) ==
    IF IsTiffUrl(url) THEN "loadGeotiff"
    ELSE IF IsImageUrl(url) THEN "loadImage"
    ELSE "Unsupported data format"

\* the body of the function wrapped by loadTextureData
Dispatch(url) ==
    IF IsImageUrl(url) THEN "loadImage"
    ELSE IF IsTiffUrl(url) THEN "loadGeotiff"
    ELSE "Unsupported data format"

PngUrl == <<"h", ".", "png">>
XyzUrl == <<"h", ".", "xyz">>
Urls == {PngUrl, XyzUrl}

\* ------------------------------------------------------- values and entries
Loaders == {"loadTextureData", "loadJson"}

\* what the second positional argument of a memoized loader can be
CacheArgs == {"undefined", "user", "false", "headers"}
MapCaches == {"default", "user"}

\* JavaScript values a loader can resolve with ("{}" an object, "0" the number)
FalsyValues == {"0", "null", "false", "emptystring"}
JsonValues == {"0", "{}"}
TextureValues == {"TextureData"}

ValuesOf(loader) == IF loader = "loadJson" THEN JsonValues ELSE TextureValues

Undefined == [k |-> "undefined", id |-> 0, v |-> ""]
PromiseRef(id) == [k |-> "promise", id |-> id, v |-> ""]
Value(v) == [k |-> "value", id |-> 0, v |-> v]
Thrown(msg) == [k |-> "throw", id |-> 0, v |-> msg]
Unread == [k |-> "unread", id |-> 0, v |-> ""]

\* a hit test that only recognises resolved values
Truthy_resolvedOnly(entry) == entry.k = "value" /\ entry.v \notin FalsyValues

\* ToBoolean of what cache.get(url) returned: `if (dataOrPromise)`
Truthy(entry) ==
    CASE entry.k = "promise" -> TRUE
      [] entry.k = "value" -> entry.v \notin FalsyValues
      [] OTHER -> FALSE

\* a wrapper without the bypass branch
IsBypass_never(arg) == FALSE

\* `cache === false`
IsBypass(arg) == arg = "false"

\* `cache = DEFAULT_CACHE`: the default applies to an undefined argument only
CacheOf(arg) == IF arg = "undefined" THEN "default" ELSE arg

\* the `headers` parameter of the wrapped function under `loadFunction(url)`:
\* the closure passes the URL alone, whatever its caller passed
HeadersReceived(arg) == "undefined"

\* does loadFunction(url) throw before returning a promise?  The function
\* wrapped by loadTextureData is not async; the one wrapped by loadJson is.
SyncThrows(loader, url) ==
    loader = "loadTextureData" /\ Dispatch(url) = "Unsupported data format"

NewPromise(loader, url, c) ==
    [loader |-> loader, url |-> url, cache |-> c, state |-> "pending",
     value |-> "", promoted |-> FALSE]

\* a wrapper that stores nothing until the load resolves
StorePending_skipped(m, c, url, id) == m

\* `cache.set(url, dataPromise)`
StorePending(m, c, url, id) == [m EXCEPT ![c][url] = PromiseRef(id)]

\* a reaction that writes to the default cache whatever cache the call was given
StoreResolved_defaultCache(m, c, url, v) == [m EXCEPT !["default"][url] = Value(v)]

\* `cache.set(url, data)` in the reaction registered by dataPromise.then
StoreResolved(m, c, url, v) == [m EXCEPT ![c][url] = Value(v)]

InFlight(c, url) ==
    {p \in 1..Len(promises) :
        /\ promises[p].cache = c
        /\ promises[p].url = url
        /\ promises[p].state = "pending"}

NoCall ==
    [loader |-> "none", url |-> <<>>, arg |-> "undefined", seen |-> Unread,
     invoked |-> FALSE, result |-> Undefined, inflightBefore |-> {},
     loadedBefore |-> FALSE, threwBefore |-> FALSE]

\* ------------------------------------------------------------------ Init
InitCache ==
    /\ cache = [c \in MapCaches |-> [u \in Urls |-> Undefined]]
    /\ promises = <<>>
    /\ last = NoCall

InitDispatchIdle ==
    /\ durl = <<>>
    /\ droute = "none"

InitImageIdle ==
    /\ attempts = <<>>
    /\ objectUrls = <<>>

\* a number w + f * Number.EPSILON, or NaN
Num(w, f) == [nan |-> FALSE, w |-> w, f |-> f]
NaN == [nan |-> TRUE, w |-> 0, f |-> 0]
NoSentinel(k) == [k |-> k, n |-> NaN]
Sentinel(n) == [k |-> "number", n |-> n]

InitMaskIdle ==
    /\ buffers = <<>>
    /\ nodata = NoSentinel("undefined")
    /\ maskRet = 0

InitRasterIdle == rasters = <<>>

Init ==
    InitCache /\ InitDispatchIdle /\ InitImageIdle /\ InitMaskIdle /\ InitRasterIdle

\* ----------------------------------------------------------- loadCached
\* the call record of a call that ran loadFunction(url)
CallRecord(loader, url, arg, seen, ran, result) ==
    [loader |-> loader, url |-> url, arg |-> arg, seen |-> seen,
     invoked |-> ran, result |-> result,
     inflightBefore |->
        IF CacheOf(arg) \in MapCaches THEN InFlight(CacheOf(arg), url) ELSE {},
     loadedBefore |->
        \E p \in 1..Len(promises) :
            promises[p].cache = CacheOf(arg) /\ promises[p].url = url,
     \* did the calls for this (cache, URL) just before this one include one
     \* that the dispatcher failed?
     threwBefore |->
        /\ CacheOf(arg) \in MapCaches
        /\ last.loader # "none"
        /\ CacheOf(last.arg) = CacheOf(arg)
        /\ last.url = url
        /\ \/ last.result = Thrown("Unsupported data format")
           \/ last.threwBefore]

\* `return loadFunction(url)` of the bypass branch
CallBypass(loader, url, arg) ==
    /\ IsBypass(arg)
    /\ IF SyncThrows(loader, url)
       THEN /\ last' = CallRecord(loader, url, arg, Unread, TRUE,
                                  Thrown("Unsupported data format"))
            /\ UNCHANGED promises
       ELSE /\ Len(promises) < MaxLoads
            /\ promises' = Append(promises, NewPromise(loader, url, "none"))
            /\ last' = CallRecord(loader, url, arg, Unread, TRUE,
                                  PromiseRef(Len(promises) + 1))
    /\ UNCHANGED cache

\* an object that is not a Map in the cache position: cache.get is not a function
CallNotAMap(loader, url, arg) ==
    /\ ~IsBypass(arg)
    /\ CacheOf(arg) \notin MapCaches
    /\ last' = CallRecord(loader, url, arg, Unread, FALSE,
                          Thrown("cache.get is not a function"))
    /\ UNCHANGED <<cache, promises>>

\* `if (dataOrPromise) return dataOrPromise`
CallHit(loader, url, arg) ==
    /\ ~IsBypass(arg)
    /\ CacheOf(arg) \in MapCaches
    /\ Truthy(cache[CacheOf(arg)][url])
    /\ last' = CallRecord(loader, url, arg, cache[CacheOf(arg)][url], FALSE,
                          cache[CacheOf(arg)][url])
    /\ UNCHANGED <<cache, promises>>

\* a miss branch that catches the dispatcher's exception and stores it
CallMiss_cachesFailure(loader, url, arg) ==
    /\ ~IsBypass(arg)
    /\ CacheOf(arg) \in MapCaches
    /\ ~Truthy(cache[CacheOf(arg)][url])
    /\ IF SyncThrows(loader, url)
       THEN /\ last' = CallRecord(loader, url, arg, cache[CacheOf(arg)][url],
                                  TRUE, Thrown("Unsupported data format"))
            /\ cache' = [cache EXCEPT ![CacheOf(arg)][url] = Value("Error")]
            /\ UNCHANGED promises
       ELSE /\ Len(promises) < MaxLoads
            /\ promises' = Append(promises,
                                  NewPromise(loader, url, CacheOf(arg)))
            /\ cache' = StorePending(cache, CacheOf(arg), url,
                                     Len(promises) + 1)
            /\ last' = CallRecord(loader, url, arg, cache[CacheOf(arg)][url],
                                  TRUE, PromiseRef(Len(promises) + 1))

\* the miss branch: loadFunction(url), cache.set, dataPromise.then, return
CallMiss(loader, url, arg) ==
    /\ ~IsBypass(arg)
    /\ CacheOf(arg) \in MapCaches
    /\ ~Truthy(cache[CacheOf(arg)][url])
    /\ IF SyncThrows(loader, url)
       THEN /\ last' = CallRecord(loader, url, arg, cache[CacheOf(arg)][url],
                                  TRUE, Thrown("Unsupported data format"))
            /\ UNCHANGED <<cache, promises>>
       ELSE /\ Len(promises) < MaxLoads
            /\ promises' = Append(promises,
                                  NewPromise(loader, url, CacheOf(arg)))
            /\ cache' = StorePending(cache, CacheOf(arg), url,
                                     Len(promises) + 1)
            /\ last' = CallRecord(loader, url, arg, cache[CacheOf(arg)][url],
                                  TRUE, PromiseRef(Len(promises) + 1))

\* one call of loadTextureData or loadJson
Call ==
    /\ \E loader \in Loaders, url \in Urls, arg \in CacheArgs :
          \/ CallBypass(loader, url, arg)
          \/ CallNotAMap(loader, url, arg)
          \/ CallHit(loader, url, arg)
          \/ CallMiss(loader, url, arg)
    /\ UNCHANGED <<dispatchVars, imageVars, maskVars, rasterVars>>

\* the underlying load fulfils
Fulfil(p) ==
    /\ promises[p].state = "pending"
    /\ \E v \in ValuesOf(promises[p].loader) :
          promises' = [promises EXCEPT ![p].state = "fulfilled", ![p].value = v]
    /\ UNCHANGED <<cache, last>>

\* the underlying load rejects
Reject(p) ==
    /\ promises[p].state = "pending"
    /\ promises' = [promises EXCEPT ![p].state = "rejected", ![p].value = "Error"]
    /\ UNCHANGED <<cache, last>>

\* a reaction registered for both settlements, storing whatever the load ended with
Promote_anySettlement(p) ==
    /\ promises[p].state \in {"fulfilled", "rejected"}
    /\ promises[p].cache \in MapCaches
    /\ ~promises[p].promoted
    /\ cache' = StoreResolved(cache, promises[p].cache, promises[p].url,
                              promises[p].value)
    /\ promises' = [promises EXCEPT ![p].promoted = TRUE]
    /\ UNCHANGED last

\* the reaction job of `dataPromise.then(data => { cache.set(url, data) })`
Promote(p) ==
    /\ promises[p].state = "fulfilled"
    /\ promises[p].cache \in MapCaches
    /\ ~promises[p].promoted
    /\ cache' = StoreResolved(cache, promises[p].cache, promises[p].url,
                              promises[p].value)
    /\ promises' = [promises EXCEPT ![p].promoted = TRUE]
    /\ UNCHANGED last

Settle ==
    /\ \E p \in 1..Len(promises) : Fulfil(p) \/ Reject(p)
    /\ UNCHANGED <<dispatchVars, imageVars, maskVars, rasterVars>>

Promotion ==
    /\ \E p \in 1..Len(promises) : Promote(p)
    /\ UNCHANGED <<dispatchVars, imageVars, maskVars, rasterVars>>

Next == Call \/ Settle \/ Promotion

vars ==
    <<cache, promises, last, durl, droute, attempts, objectUrls, buffers, nodata,
      maskRet, rasters>>

Spec == Init /\ [][Next]_vars

\* ------------------------------------------------------------ loadImage
\* what the server answers for the URL of an attempt (HTTP/2 has no status
\* text); status 0 stands for no answer at all, on which fetch rejects
Servers ==
    {[ok |-> TRUE, status |-> 200, statusText |-> "OK"],
     [ok |-> FALSE, status |-> 404, statusText |-> "Not Found"],
     [ok |-> FALSE, status |-> 404, statusText |-> ""],
     [ok |-> FALSE, status |-> 0, statusText |-> ""]}

Answered(server) == server.status # 0

CallerUrl == [k |-> "url", id |-> 0]
BlobUrl(b) == [k |-> "blob", id |-> b]

Pending == [state |-> "pending", name |-> "", url |-> <<>>, statusText |-> "-", cause |-> ""]
Resolved == [state |-> "fulfilled", name |-> "TextureData", url |-> <<>>, statusText |-> "-", cause |-> ""]
\* an error of some callee, passed on as it is
RawError(name) ==
    [state |-> "rejected", name |-> name, url |-> <<>>, statusText |-> "-", cause |-> ""]
\* new Error(`Failed to fetch image ${url}: ${response.statusText}`)
FetchError(url, response) ==
    [state |-> "rejected", name |-> "Failed to fetch image", url |-> url,
     statusText |-> response.statusText, cause |-> ""]
\* new Error(`Image ${url} can't be decoded.`, { cause: e })
DecodeError(url, e) ==
    [state |-> "rejected", name |-> "can't be decoded", url |-> url,
     statusText |-> "-", cause |-> e]

\* a fetch that treats every response as a success
FetchFailed_never(response) == FALSE

\* `!response.ok`
FetchFailed(response) == ~response.ok

\* entry of loadImage up to its first await: fetch(url, {headers}) when
\* headers are given, image.decode() otherwise
StartImage(url, headers, server) ==
    /\ Len(attempts) < MaxAttempts
    /\ attempts' = Append(attempts,
          [url |-> url, headers |-> headers, server |-> server,
           pc |-> IF headers THEN "fetch" ELSE "decode",
           blobUrl |-> CallerUrl, revokeBlob |-> FALSE,
           fetched |-> headers, revoked |-> <<>>, result |-> Pending])
    /\ UNCHANGED objectUrls

\* `await fetch(...)` returns: the ok test, then response.blob()
FetchDone(i) ==
    /\ attempts[i].pc = "fetch"
    /\ \/ /\ ~Answered(attempts[i].server)
          /\ attempts' = [attempts EXCEPT ![i].pc = "settled",
                 ![i].result = RawError("TypeError: Failed to fetch")]
       \/ /\ Answered(attempts[i].server)
          /\ FetchFailed(attempts[i].server)
          /\ attempts' = [attempts EXCEPT ![i].pc = "settled",
                 ![i].result = FetchError(attempts[i].url, attempts[i].server)]
       \/ /\ Answered(attempts[i].server)
          /\ ~FetchFailed(attempts[i].server)
          /\ attempts' = [attempts EXCEPT ![i].pc = "blob"]
    /\ UNCHANGED objectUrls

\* `await response.blob()` returns: createObjectURL, the Image, image.decode()
BlobDone(i) ==
    /\ attempts[i].pc = "blob"
    /\ \/ /\ attempts' = [attempts EXCEPT ![i].pc = "settled",
                 ![i].result = RawError("TypeError: body stream error")]
          /\ UNCHANGED objectUrls
       \/ /\ objectUrls' = Append(objectUrls, i)
          /\ attempts' = [attempts EXCEPT ![i].pc = "decode",
                 ![i].blobUrl = BlobUrl(Len(objectUrls) + 1),
                 ![i].revokeBlob = TRUE]

\* a revoke that does not look at revokeBlob
Revoke_unconditional(a) == Append(a.revoked, a.blobUrl)

\* the revokeObjectURL calls of an attempt, with one more when revokeBlob is set
Revoke(a) == IF a.revokeBlob THEN Append(a.revoked, a.blobUrl) ELSE a.revoked

\* `await image.decode()` rejects: the catch block
DecodeFails(i) ==
    /\ attempts[i].pc = "decode"
    /\ attempts' = [attempts EXCEPT ![i].pc = "settled",
           ![i].revoked = Revoke(attempts[i]),
           ![i].result = DecodeError(attempts[i].url, "EncodingError")]
    /\ UNCHANGED objectUrls

\* `await image.decode()` resolves: canvas, context, drawImage, getImageData,
\* the revoke and the return; getContext can return null and getImageData
\* can throw, and nothing catches either.  Without headers the Image element
\* loads the URL itself and decodes whatever body the server sent.
DecodeSucceeds(i) ==
    /\ attempts[i].pc = "decode"
    /\ \/ attempts' = [attempts EXCEPT ![i].pc = "settled",
                 ![i].result = RawError("TypeError: context is null")]
       \/ attempts' = [attempts EXCEPT ![i].pc = "settled",
                 ![i].result = RawError("getImageData failed")]
       \/ attempts' = [attempts EXCEPT ![i].pc = "settled",
                 ![i].revoked = Revoke(attempts[i]),
                 ![i].result = Resolved]
    /\ UNCHANGED objectUrls

Begin ==
    /\ \E url \in Urls, headers \in BOOLEAN, server \in Servers :
          StartImage(url, headers, server)
    /\ UNCHANGED <<cacheVars, dispatchVars, maskVars, rasterVars>>

Fetched ==
    /\ \E i \in 1..Len(attempts) : FetchDone(i)
    /\ UNCHANGED <<cacheVars, dispatchVars, maskVars, rasterVars>>

Blobbed ==
    /\ \E i \in 1..Len(attempts) : BlobDone(i)
    /\ UNCHANGED <<cacheVars, dispatchVars, maskVars, rasterVars>>

Decoded ==
    /\ \E i \in 1..Len(attempts) : DecodeFails(i) \/ DecodeSucceeds(i)
    /\ UNCHANGED <<cacheVars, dispatchVars, maskVars, rasterVars>>

NextImage == Begin \/ Fetched \/ Blobbed \/ Decoded

SpecImage == Init /\ [][NextImage]_vars

\* the blob URLs an attempt created and has not revoked
Unreleased(i) ==
    {b \in 1..Len(objectUrls) :
        /\ objectUrls[b] = i
        /\ \A k \in 1..Len(attempts[i].revoked) : attempts[i].revoked[k] # BlobUrl(b)}

\* ------------------------------------------------------------- maskData
ArrayTypes == {"Uint8Array", "Uint8ClampedArray", "Float32Array"}

\* sample elements: bytes, and float32 values (NaN, 0, 1, Number.EPSILON)
ByteSamples == {Num(0, 0), Num(1, 0), Num(255, 0)}
FloatSamples == {NaN, Num(0, 0), Num(1, 0), Num(0, 1)}
SamplesOf(type) == IF type = "Float32Array" THEN FloatSamples ELSE ByteSamples

\* sample sentinels: doubles around 0 and 1, a byte, NaN
SentinelSamples ==
    {Num(w, f) : w \in {0, 1}, f \in {-2, -1, 0, 1, 2}} \cup {Num(255, 0), NaN}

NodataArgs ==
    {NoSentinel("null"), NoSentinel("undefined")}
        \cup {Sentinel(n) : n \in SentinelSamples}

\* the factor of `Number.EPSILON * 2`
EpsilonFactor == 2

Abs(x) == IF x < 0 THEN -x ELSE x

\* `Math.abs(x - nodata) < Number.EPSILON * 2`; a comparison with NaN is false
Near(x, n) ==
    /\ ~x.nan
    /\ ~n.nan
    /\ x.w = n.w
    /\ Abs(x.f - n.f) < EpsilonFactor

\* what an element of the array reads back after `maskedData[i] = NaN`:
\* the integer arrays convert NaN to 0
StoredNaN(type) == IF type = "Float32Array" THEN NaN ELSE Num(0, 0)

\* a test by truthiness, `!nodata`, which also takes the sentinel 0 for none
NoNodata_falsy(arg) == arg.k \in {"null", "undefined"} \/ arg.n = Num(0, 0)

\* `nodata == undefined`
NoNodata(arg) == arg.k \in {"null", "undefined"}

\* data.slice(0) followed by the loop
Masked(buffer, n) ==
    [type |-> buffer.type,
     elems |-> [i \in 1..Len(buffer.elems) |->
                   IF Near(buffer.elems[i], n)
                   THEN StoredNaN(buffer.type)
                   ELSE buffer.elems[i]]]

InitMask ==
    /\ InitCache
    /\ InitDispatchIdle
    /\ InitImageIdle
    /\ \E type \in ArrayTypes, len \in 0..MaxLen :
          \E elems \in [1..len -> SamplesOf(type)] :
              buffers = <<[type |-> type, elems |-> elems]>>
    /\ nodata \in NodataArgs
    /\ maskRet = 0
    /\ InitRasterIdle

\* maskData(data, nodata) with data = buffers[1]
MaskData ==
    /\ maskRet = 0
    /\ IF NoNodata(nodata)
       THEN /\ maskRet' = 1
            /\ UNCHANGED buffers
       ELSE /\ buffers' = Append(buffers, Masked(buffers[1], nodata.n))
            /\ maskRet' = Len(buffers) + 1
    /\ UNCHANGED <<nodata, cacheVars, dispatchVars, imageVars, rasterVars>>

NextMask == MaskData

SpecMask == InitMask /\ [][NextMask]_vars

\* ----------------------------------------------------------- loadGeotiff
\* the element types readRasters can hand back; the last is not a TextureDataArray
SourceTypes == ArrayTypes \cup {"Uint16Array"}

\* sample rasters, one per element type, and the sentinels getGDALNoData gives
RasterElems == <<Num(1, 0), Num(0, 0)>>
RasterNodata == {NoSentinel("null"), Sentinel(Num(1, 0))}

NoData == [type |-> "none", elems |-> <<>>]

\* maskData(sourceData, nodata)
MaskCall(buffer, arg) == IF NoNodata(arg) THEN buffer ELSE Masked(buffer, arg.n)

\* entry of loadGeotiff up to `await getLibrary('geotiff')`
StartGeotiff(url, headers) ==
    /\ Len(rasters) < MaxAttempts
    /\ rasters' = Append(rasters,
          [url |-> url, headers |-> headers, pc |-> "library",
           customFetch |-> FALSE, data |-> NoData, result |-> Pending])

\* getLibrary settles: its rejection leaves the function as it is; otherwise
\* the try block calls GeoTIFF.fromUrl, with customFetch when headers are given
LibraryDone(i) ==
    /\ rasters[i].pc = "library"
    /\ \/ rasters' = [rasters EXCEPT ![i].pc = "settled",
                         ![i].result = RawError("getLibrary failed")]
       \/ rasters' = [rasters EXCEPT ![i].pc = "open",
                         ![i].customFetch = rasters[i].headers]

\* the catch block around GeoTIFF.fromUrl
OpenFailure(url) == DecodeError(url, "fromUrl failed")

\* GeoTIFF.fromUrl settles: the catch block, or geotiff.getImage(0)
OpenDone(i) ==
    /\ rasters[i].pc = "open"
    /\ \/ rasters' = [rasters EXCEPT ![i].pc = "settled",
                         ![i].result = OpenFailure(rasters[i].url)]
       \/ rasters' = [rasters EXCEPT ![i].pc = "image"]

\* getImage(0) settles, outside the try block: readRasters({interleave: true})
ImageDone(i) ==
    /\ rasters[i].pc = "image"
    /\ \/ rasters' = [rasters EXCEPT ![i].pc = "settled",
                         ![i].result = RawError("getImage failed")]
       \/ rasters' = [rasters EXCEPT ![i].pc = "read"]

\* readRasters settles, outside the try block: the instanceof test,
\* getGDALNoData, maskData, getWidth, getHeight and the return
ReadDone(i) ==
    /\ rasters[i].pc = "read"
    /\ \/ rasters' = [rasters EXCEPT ![i].pc = "settled",
                         ![i].result = RawError("readRasters failed")]
       \/ \E type \in SourceTypes, arg \in RasterNodata :
             IF type \in ArrayTypes
             THEN rasters' = [rasters EXCEPT ![i].pc = "settled",
                     ![i].data = MaskCall([type |-> type, elems |-> RasterElems], arg),
                     ![i].result = Resolved]
             ELSE rasters' = [rasters EXCEPT ![i].pc = "settled",
                     ![i].result = RawError("Unsupported data format")]

BeginRaster ==
    /\ \E url \in Urls, headers \in BOOLEAN : StartGeotiff(url, headers)
    /\ UNCHANGED <<cacheVars, dispatchVars, imageVars, maskVars>>

LibraryLoaded ==
    /\ \E i \in 1..Len(rasters) : LibraryDone(i)
    /\ UNCHANGED <<cacheVars, dispatchVars, imageVars, maskVars>>

Opened ==
    /\ \E i \in 1..Len(rasters) : OpenDone(i)
    /\ UNCHANGED <<cacheVars, dispatchVars, imageVars, maskVars>>

ImageGot ==
    /\ \E i \in 1..Len(rasters) : ImageDone(i)
    /\ UNCHANGED <<cacheVars, dispatchVars, imageVars, maskVars>>

RastersRead ==
    /\ \E i \in 1..Len(rasters) : ReadDone(i)
    /\ UNCHANGED <<cacheVars, dispatchVars, imageVars, maskVars>>

NextGeotiff == BeginRaster \/ LibraryLoaded \/ Opened \/ ImageGot \/ RastersRead

SpecGeotiff == Init /\ [][NextGeotiff]_vars

\* ------------------------------------------------- the dispatcher alone
UrlSpace == UNION {[1..n -> UrlTokens] : n \in 1..MaxUrlLen}

InitDispatch ==
    /\ InitCache
    /\ InitImageIdle
    /\ InitMaskIdle
    /\ InitRasterIdle
    /\ durl \in UrlSpace
    /\ droute = "none"

\* loadFunction(url) of loadTextureData, up to the decoder it selects
Classify ==
    /\ droute = "none"
    /\ droute' = Dispatch(durl)
    /\ UNCHANGED <<durl, cacheVars, imageVars, maskVars, rasterVars>>

NextDispatch == Classify

SpecDispatch == InitDispatch /\ [][NextDispatch]_vars

\* ------------------------------------------------------------ properties
IsCall == last.loader # "none"
OnMap == IsCall /\ ~(last.arg = "false") /\ CacheOf(last.arg) \in MapCaches

\* what a caller holding result r observes
Outcome(r) ==
    IF r.k = "promise"
    THEN <<promises[r.id].state, promises[r.id].value>>
    ELSE <<r.k, r.v>>

\* C1: for a Map cache and a URL, at most one underlying load is in flight,
\* and a call issued while a load for its (cache, URL) is pending does not
\* invoke the underlying loader and receives that same pending promise.
C1_SingleFlight ==
    /\ \A c \in MapCaches, u \in Urls : Cardinality(InFlight(c, u)) <= 1
    /\ (OnMap /\ last.inflightBefore # {}) =>
          /\ ~last.invoked
          /\ \A p \in last.inflightBefore : last.result = PromiseRef(p)

C1_Witness ==
    /\ OnMap
    /\ last.inflightBefore # {}
    /\ last.result.k = "promise"
    /\ promises[last.result.id].state = "pending"

\* C2: a call with cache `false` reads no cache (nothing was got), invokes
\* the underlying loader, returns what that invocation produced (a promise
\* no cache holds, or its exception), and neither the call nor the later
\* settling of its load changes any cache.
BypassFresh ==
    (IsCall /\ last.arg = "false") =>
        /\ last.invoked
        /\ last.seen = Unread
        /\ \/ last.result.k = "throw" /\ SyncThrows(last.loader, last.url)
           \/ /\ last.result = PromiseRef(Len(promises))
              /\ promises[Len(promises)].cache = "none"
              /\ promises[Len(promises)].url = last.url
              /\ \A c \in MapCaches, u \in Urls : cache[c][u] # last.result

BypassCallWritesNothing ==
    (last'.arg = "false" /\ (last' # last \/ Len(promises') > Len(promises)))
        => cache' = cache

BypassSettleWritesNothing ==
    \A p \in 1..Len(promises) :
        (promises[p].cache = "none" /\ promises'[p] # promises[p])
            => cache' = cache

C2_Bypass ==
    /\ []BypassFresh
    /\ [][BypassCallWritesNothing /\ BypassSettleWritesNothing]_vars

C2_Witness ==
    /\ IsCall
    /\ last.arg = "false"
    /\ last.result.k = "promise"
    /\ promises[last.result.id].state = "fulfilled"
    /\ cache["default"][last.url].k = "value"

\* C3: once a cached load has resolved with v and its reaction has run, the
\* cache entry of that URL is v, and a call that finds a resolved value v in
\* the cache returns v without starting a load.
C3_PromotedValueStays ==
    /\ \A p \in 1..Len(promises) :
          promises[p].promoted =>
              cache[promises[p].cache][promises[p].url] = Value(promises[p].value)
    /\ (OnMap /\ last.seen.k = "value") =>
          /\ last.result = last.seen
          /\ ~last.invoked

\* C4: a call that finds any entry (pending promise or resolved value) under
\* its URL returns that entry and does not invoke the underlying loader, so
\* no call starts a load for a (cache, URL) that was loaded before.
C4_EntryReturnedAsIs ==
    /\ (OnMap /\ last.seen.k \in {"promise", "value"}) =>
          /\ last.result = last.seen
          /\ ~last.invoked
    /\ OnMap => ~(last.invoked /\ last.loadedBefore)

\* C5: a call issued while a load for its (cache, URL) is pending ends in
\* the outcome of that load: the same value or the same failure.
C5_SameOutcome ==
    (OnMap /\ last.inflightBefore # {}) =>
        \A p \in last.inflightBefore :
            Outcome(last.result) = Outcome(PromiseRef(p))

C5_Witness ==
    /\ OnMap
    /\ last.inflightBefore # {}
    /\ last.result.k = "promise"
    /\ promises[last.result.id].state = "rejected"
    /\ \A p \in last.inflightBefore : promises[p].state = "rejected"

\* C6: no call of loadTextureData ends in an exception thrown from the call;
\* every failure is a rejected promise.
C6_NoSyncThrow ==
    (IsCall /\ last.loader = "loadTextureData") => last.result.k # "throw"

\* C7: the dispatcher's outcome is decided by the markers with fixed
\* precedence: a PNG or WebP marker gives the image decoder whatever else the
\* URL contains, otherwise a TIFF marker gives the raster decoder, otherwise
\* the unsupported-format error; one of the three always results.
ImageMarkers ==
    {<<".", "png">>, <<".", "webp">>, <<"image/", "png">>, <<"image/", "webp">>}
TiffMarkers == {<<".", "tif">>, <<"image/", "tif">>}
ContainsAny(url, markers) ==
    \E m \in markers : \E i \in 1..Len(url) :
        i + Len(m) - 1 <= Len(url) /\ \A j \in 1..Len(m) : url[i + j - 1] = m[j]

C7_DispatchPrecedence ==
    droute # "none" =>
        /\ droute \in {"loadImage", "loadGeotiff", "Unsupported data format"}
        /\ (droute = "loadImage") <=> ContainsAny(durl, ImageMarkers)
        /\ (droute = "loadGeotiff") <=>
              (~ContainsAny(durl, ImageMarkers) /\ ContainsAny(durl, TiffMarkers))
        /\ (droute = "Unsupported data format") <=>
              (~ContainsAny(durl, ImageMarkers) /\ ~ContainsAny(durl, TiffMarkers))

C7_Witness ==
    /\ droute = "loadImage"
    /\ ContainsAny(durl, TiffMarkers)

\* C8: when an attempt of the image decoder has settled, every blob URL it
\* created has been revoked, whichever way it settled.
C8_BlobReleasedOnEveryPath ==
    \A i \in 1..Len(attempts) :
        attempts[i].pc = "settled" => Unreleased(i) = {}

C10_MaskedIffNear ==
    (maskRet # 0 /\ nodata.k = "number") =>
        /\ buffers[maskRet].type = buffers[1].type
        /\ Len(buffers[maskRet].elems) = Len(buffers[1].elems)
        /\ \A i \in 1..Len(buffers[1].elems) :
              LET x == buffers[1].elems[i]
                  y == buffers[maskRet].elems[i]
                  near == /\ ~x.nan
                          /\ ~nodata.n.nan
                          /\ x.w = nodata.n.w
                          /\ x.f - nodata.n.f \in {-1, 0, 1}
              IN  /\ y.nan <=> (near \/ x.nan)
                  /\ ~near => y = x

\* C11: a headers map given to a memoized loader reaches the underlying
\* loader: the call invokes the loader, the loader receives the headers, and
\* the call does not fail on the headers themselves.
C11_HeadersDelivered ==
    (IsCall /\ last.arg = "headers") =>
        /\ last.invoked
        /\ HeadersReceived(last.arg) = "headers"
        /\ last.result.k # "throw" \/ SyncThrows(last.loader, last.url)

\* C14: maskData never changes its argument; without a sentinel (null or
\* undefined) it returns the argument itself and allocates nothing, with a
\* sentinel (0 included) it returns another buffer.
InputKept == buffers'[1] = buffers[1]

C14_InputUntouched ==
    /\ [](maskRet # 0 =>
            IF nodata.k \in {"null", "undefined"}
            THEN maskRet = 1 /\ Len(buffers) = 1
            ELSE maskRet # 1 /\ Len(buffers) = maskRet)
    /\ [][InputKept]_vars

C14_Witness ==
    /\ maskRet = 2
    /\ nodata = Sentinel(Num(0, 0))
    /\ buffers[1].type = "Float32Array"
    /\ buffers[2] # buffers[1]

\* C15: a cached load that rejected stays in the cache as that rejected
\* promise: its entry is never promoted, replaced or removed, and a call that
\* finds it returns it without invoking the underlying loader.
C15_RejectionKept ==
    /\ \A p \in 1..Len(promises) :
          (promises[p].state = "rejected" /\ promises[p].cache \in MapCaches) =>
              /\ cache[promises[p].cache][promises[p].url] = PromiseRef(p)
              /\ ~promises[p].promoted
    /\ (OnMap /\ last.seen.k = "promise"
              /\ promises[last.seen.id].state = "rejected") =>
          /\ last.result = last.seen
          /\ ~last.invoked

C15_Witness ==
    /\ OnMap
    /\ last.seen.k = "promise"
    /\ last.inflightBefore = {}
    /\ promises[last.seen.id].state = "rejected"
    /\ last.result = last.seen

\* C17: called without a cache argument, both loaders use the one default
\* mapping: a call of either that finds an entry under its URL, pending or
\* resolved, returns it without invoking its own loader, whichever loader
\* made the entry, and a load either starts is stored in the default mapping.
C17_SharedDefaultCache ==
    (IsCall /\ last.arg = "undefined") =>
        /\ last.seen.k \in {"promise", "value"} =>
              /\ last.result = last.seen
              /\ ~last.invoked
        /\ (last.invoked /\ last.result.k = "promise") =>
              /\ promises[last.result.id].cache = "default"
              /\ promises[last.result.id].loader = last.loader

\* C18: an attempt of the image decoder revokes at most once, and only a blob
\* URL that its own createObjectURL made; without headers it issues no fetch
\* and neither creates nor revokes a blob URL.
C18_RevokeOwnBlobOnce ==
    \A i \in 1..Len(attempts) :
        /\ Len(attempts[i].revoked) <= 1
        /\ \A k \in 1..Len(attempts[i].revoked) :
              /\ attempts[i].revoked[k].k = "blob"
              /\ attempts[i].revoked[k].id \in 1..Len(objectUrls)
              /\ objectUrls[attempts[i].revoked[k].id] = i
        /\ ~attempts[i].headers =>
              /\ ~attempts[i].fetched
              /\ attempts[i].revoked = <<>>
              /\ \A b \in 1..Len(objectUrls) : objectUrls[b] # i

C18_Witness ==
    \E i, j \in 1..Len(attempts) :
        /\ attempts[i].headers /\ ~attempts[j].headers
        /\ attempts[i].pc = "settled" /\ attempts[j].pc = "settled"
        /\ attempts[i].revoked = <<BlobUrl(1)>>
        /\ attempts[j].result.state = "fulfilled"

\* C13: a raster load that fails in loading the library, opening the file,
\* getting the first image or reading the rasters ends with the decode error
\* that names the URL and wraps the cause, never with the underlying error.
C13_RasterFailureWrapped ==
    \A i \in 1..Len(rasters) :
        (rasters[i].result.state = "rejected"
            /\ rasters[i].result.name # "Unsupported data format") =>
            /\ rasters[i].result.name = "can't be decoded"
            /\ rasters[i].result.url = rasters[i].url
            /\ rasters[i].result.cause # ""

\* C12: the cache key is the URL: a call for URL u with Map cache c reads
\* the entry of key u of c and no step writes any entry but that of the key
\* of the call or load it belongs to: a call that starts a load stores its
\* promise under (c, u), the reaction of a load for (c, u) stores its value
\* under (c, u), and a call that finds no entry under its own key starts its
\* load whatever the other keys hold.
WritesOwnKeyOnly ==
    \A c \in MapCaches, u \in Urls :
        cache'[c][u] # cache[c][u] =>
            \/ /\ Len(promises') = Len(promises) + 1
               /\ promises'[Len(promises')].cache = c
               /\ promises'[Len(promises')].url = u
               /\ CacheOf(last'.arg) = c
               /\ last'.url = u
               /\ cache'[c][u] = PromiseRef(Len(promises'))
            \/ \E p \in 1..Len(promises) :
                  /\ ~promises[p].promoted
                  /\ promises'[p].promoted
                  /\ promises[p].cache = c
                  /\ promises[p].url = u
                  /\ cache'[c][u] = Value(promises[p].value)

ReadsOwnKey ==
    (last' # last /\ last'.seen # Unread) =>
        last'.seen = cache[CacheOf(last'.arg)][last'.url]

C12_UrlIsTheKey ==
    /\ [](OnMap /\ last.seen = Undefined => last.invoked)
    /\ [][WritesOwnKeyOnly /\ ReadsOwnKey]_vars

C12_Witness ==
    /\ OnMap
    /\ last.url = XyzUrl
    /\ last.arg = "user"
    /\ last.invoked
    /\ cache["user"][XyzUrl].k = "value"
    /\ cache["user"][PngUrl].k = "promise"
    /\ promises[cache["user"][PngUrl].id].state = "pending"
    /\ cache["default"][XyzUrl] = Undefined

\* C16 as claimed: once the dispatcher has failed a call for a (cache, URL),
\* every later call of loadTextureData for that (cache, URL) runs the
\* dispatcher and fails again.
C16_FailsAgainAlways ==
    (OnMap /\ last.loader = "loadTextureData" /\ last.threwBefore) =>
        /\ last.invoked
        /\ last.result = Thrown("Unsupported data format")

\* C16 as amended: a call that the dispatcher fails changes no cache and
\* starts no load, and a later call of loadTextureData for that (cache, URL)
\* that finds no entry under the URL runs the dispatcher and fails again.
FailureStoresNothing ==
    (last' # last /\ last'.result = Thrown("Unsupported data format")) =>
        /\ cache' = cache
        /\ promises' = promises

C16_FailureNotCached ==
    /\ []((OnMap /\ last.loader = "loadTextureData" /\ last.threwBefore
              /\ last.seen = Undefined) =>
            /\ last.invoked
            /\ last.result = Thrown("Unsupported data format"))
    /\ [][FailureStoresNothing]_vars

C16_Witness ==
    /\ OnMap
    /\ last.loader = "loadTextureData"
    /\ last.threwBefore
    /\ last.result = Thrown("Unsupported data format")
    /\ cache[CacheOf(last.arg)][last.url] = Undefined

====
